---- MODULE Spec2Model ----
(***************************************************************************)
(* Model of the HUSB238 USB-C Power Delivery driver                        *)
(* (src/adafruit_husb238.py, class Adafruit_HUSB238).                      *)
(*                                                                         *)
(* The chip is a bank of ten byte-wide registers, reg[0..9].  Every driver *)
(* operation is a call: Invoke(o, a) enters it, the operation's own        *)
(* action(s) perform its bus transactions one by one, and the call ends    *)
(* back at pc = "ready" with its outcome in ret and its bus transactions   *)
(* in log.  The chip changes its status and capability registers on its    *)
(* own (a PD source can renegotiate at any time): ChipUpdate* may fire at  *)
(* any point of a call in progress, so also between two bus reads of one   *)
(* call.  A change between two calls is the same behaviour as a change     *)
(* right after the next call is entered, before its first bus access.      *)
(***************************************************************************)
EXTENDS Integers, Sequences, FiniteSets, TLC

\* ------------------------------------------------------------------------
\* Register addresses (module-level const(...) definitions)
\* ------------------------------------------------------------------------
PD_STATUS0 == 0
PD_STATUS1 == 1
SRC_PDO_5V == 2
SRC_PDO_9V == 3
SRC_PDO_12V == 4
SRC_PDO_15V == 5
SRC_PDO_18V == 6
SRC_PDO_20V == 7
SRC_PDO == 8
GO_COMMAND == 9

Registers == PD_STATUS0 .. GO_COMMAND
Byte == 0 .. 255

\* ------------------------------------------------------------------------
\* Bounds of the model
\* ------------------------------------------------------------------------
\* voltages offered to the `value` setter are 0 .. MaxVoltageArg
MaxVoltageArg == 21
\* time.sleep(t) returns after t or up to MaxOversleep ms later
MaxOversleep == 1
\* depth at which the interpreter stops a runaway recursion
RecursionLimit == 3

\* ------------------------------------------------------------------------
\* Python values returned to the caller
\* ------------------------------------------------------------------------
NoneV == [t |-> "None", i |-> 0, s |-> "", l |-> << >>]
IntV(n) == [t |-> "int", i |-> n, s |-> "", l |-> << >>]
BoolV(b) == [t |-> "bool", i |-> IF b THEN 1 ELSE 0, s |-> "", l |-> << >>]
StrV(x) == [t |-> "str", i |-> 0, s |-> x, l |-> << >>]
ListV(q) == [t |-> "list", i |-> 0, s |-> "", l |-> q]

\* outcome of a call: still running, returned a value, or raised
Pending == [kind |-> "pending", exc |-> "", val |-> NoneV]
Returned(v) == [kind |-> "return", exc |-> "", val |-> v]
Raised(e) == [kind |-> "raise", exc |-> e, val |-> NoneV]

\* ------------------------------------------------------------------------
\* Bus transactions, as recorded in the log of the current call
\* ------------------------------------------------------------------------
Rd(a, v) == [k |-> "read", a |-> a, v |-> v]
Wr(a, v) == [k |-> "write", a |-> a, v |-> v]
Sl(ms) == [k |-> "sleep", a |-> -1, v |-> ms]

\* ------------------------------------------------------------------------
\* Register descriptors (adafruit_register): what a get / set computes from
\* the byte transferred
\* ------------------------------------------------------------------------
\* ROBit.__get__: bool(byte & (1 << bit))
BitOf(byte, bit) == ((byte \div (2 ^ bit)) % 2) = 1

\* ROBits.__get__: (byte & mask) >> lowest_bit, mask of num_bits ones
BitsOf(byte, num_bits, lowest_bit) == (byte \div (2 ^ lowest_bit)) % (2 ^ num_bits)

\* RWBits.__set__: (byte & ~mask) | (value << lowest_bit), for a value that
\* fits the field (value < 2 ^ num_bits), as every selector code does
SetBits(byte, num_bits, lowest_bit, value) ==
    byte - BitsOf(byte, num_bits, lowest_bit) * (2 ^ lowest_bit)
         + (value % (2 ^ num_bits)) * (2 ^ lowest_bit)

\* class attributes: the fields of the register map
cc_direction == [reg |-> PD_STATUS1, bit |-> 7]
attachment_status == [reg |-> PD_STATUS1, bit |-> 6]
pd_response == [num_bits |-> 3, reg |-> PD_STATUS1, lowest_bit |-> 3]
\* variant: the flag taken from bit 3, the lowest bit of the response field
contract_v_5v_bit3 == [reg |-> PD_STATUS1, bit |-> 3]
contract_v_5v == [reg |-> PD_STATUS1, bit |-> 2]
contract_a_5v == [num_bits |-> 2, reg |-> PD_STATUS1, lowest_bit |-> 0]
pd_src_voltage == [num_bits |-> 4, reg |-> PD_STATUS0, lowest_bit |-> 4]
pd_src_current == [num_bits |-> 4, reg |-> PD_STATUS0, lowest_bit |-> 0]
voltage_detected_5v == [reg |-> SRC_PDO_5V, bit |-> 7]
voltage_detected_9v == [reg |-> SRC_PDO_9V, bit |-> 7]
voltage_detected_12v == [reg |-> SRC_PDO_12V, bit |-> 7]
voltage_detected_15v == [reg |-> SRC_PDO_15V, bit |-> 7]
\* variant: the 18 V descriptor left on the 15 V register
voltage_detected_18v_copy == [reg |-> SRC_PDO_15V, bit |-> 7]
voltage_detected_18v == [reg |-> SRC_PDO_18V, bit |-> 7]
voltage_detected_20v == [reg |-> SRC_PDO_20V, bit |-> 7]
\* variant: the selector field placed in the low nibble
selected_pd_low == [num_bits |-> 4, reg |-> SRC_PDO, lowest_bit |-> 0]
selected_pd == [num_bits |-> 4, reg |-> SRC_PDO, lowest_bit |-> 4]
go_command == [reg |-> GO_COMMAND]
src_pdo == [reg |-> SRC_PDO]

\* ------------------------------------------------------------------------
\* Decode tables (class-level dicts)
\* ------------------------------------------------------------------------
VOLTAGE_TO_PDO ==
    (5 :> 1) @@ (9 :> 2) @@ (12 :> 3) @@ (15 :> 8) @@ (18 :> 9) @@ (20 :> 10)

PDO_TO_VOLTAGE ==
    (0 :> StrV("UNATTACHED")) @@ (1 :> IntV(5)) @@ (2 :> IntV(9)) @@
    (3 :> IntV(12)) @@ (4 :> IntV(15)) @@ (5 :> IntV(18)) @@ (6 :> IntV(20))

PDO_TO_CURRENT ==
    (0 :> "0.5A") @@ (1 :> "0.7A") @@ (2 :> "1.0A") @@ (3 :> "1.25A") @@
    (4 :> "1.5A") @@ (5 :> "1.75A") @@ (6 :> "2.0A") @@ (7 :> "2.0A") @@
    (8 :> "2.50A") @@ (9 :> "2.75A") @@ (10 :> "3.0A") @@ (11 :> "3.25A") @@
    (12 :> "3.5A") @@ (13 :> "4.0A") @@ (14 :> "4.5A") @@ (15 :> "5.0A")

PDO_RESPONSE_CODES ==
    (0 :> "NO RESPONSE") @@ (1 :> "SUCCESS") @@
    (3 :> "INVALID COMMAND OR ARGUMENT") @@ (4 :> "COMMAND NOT SUPPORTED") @@
    (5 :> "TRANSACTION FAILED, NO GOOD CRC")

\* ------------------------------------------------------------------------
\* State
\* ------------------------------------------------------------------------
VARIABLES
    reg,        \* the chip's registers, address -> byte
    pc,         \* "ready", or the position of the call in progress
    op,         \* the operation called last (or in progress)
    arg,        \* its argument (the voltage of the `value` setter), else 0
    log,        \* the bus transactions and sleeps of that call, in order
    ret,        \* its outcome
    detected,   \* available_voltages: the detection bits read so far
    depth,      \* value getter: nesting depth of the property access
    pre,        \* history: the host-written registers when the call was entered
    lastSel,    \* history: selector code of the last successful select, -1 if none
    rejected    \* history: a select was rejected since that successful select

vars == <<reg, pc, op, arg, log, ret, detected, depth, pre, lastSel, rejected>>

\* the registers the host writes
HostWritten(r) == [a \in {SRC_PDO, GO_COMMAND} |-> r[a]]

\* ------------------------------------------------------------------------
\* A call is made: Adafruit_HUSB238.<o>(a)
\* ------------------------------------------------------------------------
Invoke(o, a) ==
    /\ pc = "ready"
    /\ pc' = o
    /\ op' = o
    /\ arg' = a
    /\ log' = << >>
    /\ ret' = Pending
    /\ detected' = << >>
    /\ depth' = 0
    /\ pre' = HostWritten(reg)
    /\ UNCHANGED <<reg, lastSel, rejected>>

\* the call in progress ends with outcome r
Finish(r) ==
    /\ pc' = "ready"
    /\ ret' = r

\* ------------------------------------------------------------------------
\* Status accessors on PD_STATUS1
\* ------------------------------------------------------------------------
get_5v_contract_amps ==
    /\ pc = "get_5v_contract_amps"
    /\ LET b == reg[contract_a_5v.reg]
           amps == BitsOf(b, contract_a_5v.num_bits, contract_a_5v.lowest_bit)
       IN  /\ log' = Append(log, Rd(contract_a_5v.reg, b))
           /\ Finish(Returned(IntV(amps)))
    /\ UNCHANGED <<reg, op, arg, detected, depth, pre, lastSel, rejected>>

get_5v_contract_volts ==
    /\ pc = "get_5v_contract_volts"
    /\ LET b == reg[contract_v_5v.reg]
           volts == BitOf(b, contract_v_5v.bit)
       IN  /\ log' = Append(log, Rd(contract_v_5v.reg, b))
           /\ Finish(Returned(BoolV(volts)))
    /\ UNCHANGED <<reg, op, arg, detected, depth, pre, lastSel, rejected>>

get_cc_direction ==
    /\ pc = "get_cc_direction"
    /\ LET b == reg[cc_direction.reg]
           direction == BitOf(b, cc_direction.bit)
       IN  /\ log' = Append(log, Rd(cc_direction.reg, b))
           /\ Finish(Returned(BoolV(direction)))
    /\ UNCHANGED <<reg, op, arg, detected, depth, pre, lastSel, rejected>>

\* PDO_RESPONSE_CODES[self.pd_response]: one read, then a dict subscript,
\* which raises KeyError for a key the dict does not hold
get_response ==
    /\ pc = "get_response"
    /\ LET b == reg[pd_response.reg]
           code == BitsOf(b, pd_response.num_bits, pd_response.lowest_bit)
       IN  /\ log' = Append(log, Rd(pd_response.reg, b))
           /\ Finish(IF code \in DOMAIN PDO_RESPONSE_CODES
                     THEN Returned(StrV(PDO_RESPONSE_CODES[code]))
                     ELSE Raised("KeyError"))
    /\ UNCHANGED <<reg, op, arg, detected, depth, pre, lastSel, rejected>>

is_attached ==
    /\ pc = "is_attached"
    /\ LET b == reg[attachment_status.reg]
           status == BitOf(b, attachment_status.bit)
       IN  /\ log' = Append(log, Rd(attachment_status.reg, b))
           /\ Finish(Returned(BoolV(status)))
    /\ UNCHANGED <<reg, op, arg, detected, depth, pre, lastSel, rejected>>

\* ------------------------------------------------------------------------
\* The chip changes a register on its own: one bit of it flips (any change
\* is a sequence of these).
\* ------------------------------------------------------------------------
ChipFlip(a, bits) ==
    /\ pc # "ready"
    /\ \E k \in bits :
         reg' = [reg EXCEPT ![a] = IF BitOf(reg[a], k)
                                   THEN reg[a] - 2 ^ k
                                   ELSE reg[a] + 2 ^ k]
    /\ UNCHANGED <<pc, op, arg, log, ret, detected, depth, pre, lastSel, rejected>>

ChipUpdateStatus1 == ChipFlip(PD_STATUS1, 0 .. 7)

\* ------------------------------------------------------------------------
\* Initial states
\* ------------------------------------------------------------------------
\* registers at rest: no source attached, nothing selected, no command
RegsAtRest == [a \in Registers |-> 0]

InitCall ==
    /\ pc = "ready"
    /\ op = "none"
    /\ arg = 0
    /\ log = << >>
    /\ ret = Pending
    /\ detected = << >>
    /\ depth = 0
    /\ lastSel = -1
    /\ rejected = FALSE

\* ------------------------------------------------------------------------
\* Status reader, PD_STATUS1: every content of the register
\* ------------------------------------------------------------------------
Status1Ops ==
    {"get_5v_contract_amps", "get_5v_contract_volts", "get_cc_direction",
     "get_response", "is_attached"}

InitStatus1 ==
    /\ InitCall
    /\ \E b \in Byte : reg = [RegsAtRest EXCEPT ![PD_STATUS1] = b]
    /\ pre = HostWritten(reg)

NextStatus1 ==
    \/ \E o \in Status1Ops : Invoke(o, 0)
    \/ get_5v_contract_amps
    \/ get_5v_contract_volts
    \/ get_cc_direction
    \/ get_response
    \/ is_attached
    \/ ChipUpdateStatus1

SpecStatus1 == InitStatus1 /\ [][NextStatus1]_vars

\* ------------------------------------------------------------------------
\* Status accessors on PD_STATUS0
\* ------------------------------------------------------------------------
\* time.sleep(ms / 1000): the caller is suspended for at least ms
Sleep(ms) ==
    \E over \in 0 .. MaxOversleep : log' = Append(log, Sl(ms + over))

\* `if self.pd_src_current in self.PDO_TO_CURRENT:` -- the first read
read_current ==
    /\ pc = "read_current"
    /\ LET b == reg[pd_src_current.reg]
           code == BitsOf(b, pd_src_current.num_bits, pd_src_current.lowest_bit)
       IN  /\ log' = Append(log, Rd(pd_src_current.reg, b))
           /\ IF code \in DOMAIN PDO_TO_CURRENT
              THEN pc' = "read_current_lookup" /\ ret' = ret
              ELSE Finish(Returned(StrV("Unable to read current")))
    /\ UNCHANGED <<reg, op, arg, detected, depth, pre, lastSel, rejected>>

\* `pdo_value = self.PDO_TO_CURRENT[self.pd_src_current]` -- the second read
read_current_lookup ==
    /\ pc = "read_current_lookup"
    /\ LET b == reg[pd_src_current.reg]
           code == BitsOf(b, pd_src_current.num_bits, pd_src_current.lowest_bit)
       IN  /\ log' = Append(log, Rd(pd_src_current.reg, b))
           /\ Finish(IF code \in DOMAIN PDO_TO_CURRENT
                     THEN Returned(StrV(PDO_TO_CURRENT[code]))
                     ELSE Raised("KeyError"))
    /\ UNCHANGED <<reg, op, arg, detected, depth, pre, lastSel, rejected>>

\* `time.sleep(0.01)`
read_voltage ==
    /\ pc = "read_voltage"
    /\ Sleep(10)
    /\ pc' = "read_voltage_test"
    /\ UNCHANGED <<reg, op, arg, ret, detected, depth, pre, lastSel, rejected>>

\* `if self.pd_src_voltage in self.PDO_TO_VOLTAGE:` -- the first read
read_voltage_test ==
    /\ pc = "read_voltage_test"
    /\ LET b == reg[pd_src_voltage.reg]
           code == BitsOf(b, pd_src_voltage.num_bits, pd_src_voltage.lowest_bit)
       IN  /\ log' = Append(log, Rd(pd_src_voltage.reg, b))
           /\ IF code \in DOMAIN PDO_TO_VOLTAGE
              THEN pc' = "read_voltage_lookup" /\ ret' = ret
              ELSE Finish(Returned(StrV("Unable to read voltage")))
    /\ UNCHANGED <<reg, op, arg, detected, depth, pre, lastSel, rejected>>

\* `pdo_value = self.PDO_TO_VOLTAGE[self.pd_src_voltage]` -- the second read
read_voltage_lookup ==
    /\ pc = "read_voltage_lookup"
    /\ LET b == reg[pd_src_voltage.reg]
           code == BitsOf(b, pd_src_voltage.num_bits, pd_src_voltage.lowest_bit)
       IN  /\ log' = Append(log, Rd(pd_src_voltage.reg, b))
           /\ Finish(IF code \in DOMAIN PDO_TO_VOLTAGE
                     THEN Returned(PDO_TO_VOLTAGE[code])
                     ELSE Raised("KeyError"))
    /\ UNCHANGED <<reg, op, arg, detected, depth, pre, lastSel, rejected>>

ChipUpdateStatus0 == ChipFlip(PD_STATUS0, 0 .. 7)

\* the response field of PD_STATUS1 alone
ChipUpdateResponse == ChipFlip(PD_STATUS1, 3 .. 5)

\* ------------------------------------------------------------------------
\* Status reader: all seven accessors.  PD_STATUS0 takes every content; of
\* PD_STATUS1 the response field takes every code (the other bits are read
\* by single-read accessors only, and take every content under SpecStatus1).
\* ------------------------------------------------------------------------
StatusOps == Status1Ops \cup {"read_current", "read_voltage"}

InitStatus ==
    /\ InitCall
    /\ \E b \in Byte, c \in 0 .. 7 :
         reg = [RegsAtRest EXCEPT ![PD_STATUS0] = b, ![PD_STATUS1] = 64 + 8 * c]
    /\ pre = HostWritten(reg)

NextStatus ==
    \/ \E o \in StatusOps : Invoke(o, 0)
    \/ get_5v_contract_amps
    \/ get_5v_contract_volts
    \/ get_cc_direction
    \/ get_response
    \/ is_attached
    \/ read_current
    \/ read_current_lookup
    \/ read_voltage
    \/ read_voltage_test
    \/ read_voltage_lookup
    \/ ChipUpdateStatus0
    \/ ChipUpdateResponse

SpecStatus == InitStatus /\ [][NextStatus]_vars

\* ------------------------------------------------------------------------
\* available_voltages
\* ------------------------------------------------------------------------
\* the list literal of the for statement: its six (voltage, descriptor read)
\* pairs are evaluated, in this order, before the loop body first runs
VoltageTable ==
    << [voltage |-> 5, d |-> voltage_detected_5v],
       [voltage |-> 9, d |-> voltage_detected_9v],
       [voltage |-> 12, d |-> voltage_detected_12v],
       [voltage |-> 15, d |-> voltage_detected_15v],
       [voltage |-> 18, d |-> voltage_detected_18v],
       [voltage |-> 20, d |-> voltage_detected_20v] >>

\* the loop: _available_voltages.append(voltage) for each detected pair
RECURSIVE Collect(_, _)
Collect(pairs, flags) ==
    IF pairs = << >>
    THEN << >>
    ELSE IF Head(flags)
         THEN <<Head(pairs).voltage>> \o Collect(Tail(pairs), Tail(flags))
         ELSE Collect(Tail(pairs), Tail(flags))

\* one step per descriptor read; the last one runs the loop and returns
available_voltages ==
    /\ pc = "available_voltages"
    /\ LET e == VoltageTable[Len(detected) + 1]
           b == reg[e.d.reg]
           flags == Append(detected, BitOf(b, e.d.bit))
       IN  /\ log' = Append(log, Rd(e.d.reg, b))
           /\ detected' = flags
           /\ IF Len(flags) = Len(VoltageTable)
              THEN Finish(Returned(ListV(Collect(VoltageTable, flags))))
              ELSE pc' = pc /\ ret' = ret
    /\ UNCHANGED <<reg, op, arg, depth, pre, lastSel, rejected>>

\* the source's offer changes: the detection bit of one capability register
ChipUpdateCapability ==
    \E a \in SRC_PDO_5V .. SRC_PDO_20V : ChipFlip(a, {7})

\* a capability register: detection bit, reserved bits clear, current code
CapBytes == {10, 128 + 10}

InitCapability ==
    /\ InitCall
    /\ \E f \in [SRC_PDO_5V .. SRC_PDO_20V -> CapBytes] :
         reg = [a \in Registers |->
                  IF a \in DOMAIN f THEN f[a] ELSE RegsAtRest[a]]
    /\ pre = HostWritten(reg)

NextCapability ==
    \/ Invoke("available_voltages", 0)
    \/ available_voltages
    \/ ChipUpdateCapability

SpecCapability == InitCapability /\ [][NextCapability]_vars

\* ------------------------------------------------------------------------
\* Command sequencer
\* ------------------------------------------------------------------------
\* UnaryStruct.__set__: one bus write of the byte to the register
BusWrite(a, b) ==
    /\ reg' = [reg EXCEPT ![a] = b]
    /\ log' = Append(log, Wr(a, b))

\* `self._go_command = 0x02`
get_source_capabilities ==
    /\ pc = "get_source_capabilities"
    /\ BusWrite(go_command.reg, 2)
    /\ pc' = "get_source_capabilities_sleep"
    /\ UNCHANGED <<op, arg, ret, detected, depth, pre, lastSel, rejected>>

\* variant: a 1 ms settle delay, time.sleep(0.001)
get_source_capabilities_sleep_short ==
    /\ pc = "get_source_capabilities_sleep"
    /\ Sleep(1)
    /\ pc' = "get_source_capabilities_read"
    /\ UNCHANGED <<reg, op, arg, ret, detected, depth, pre, lastSel, rejected>>

\* `time.sleep(0.01)`
get_source_capabilities_sleep ==
    /\ pc = "get_source_capabilities_sleep"
    /\ Sleep(10)
    /\ pc' = "get_source_capabilities_read"
    /\ UNCHANGED <<reg, op, arg, ret, detected, depth, pre, lastSel, rejected>>

\* `return self._src_pdo`: UnaryStruct.__get__, one bus read of the byte
get_source_capabilities_read ==
    /\ pc = "get_source_capabilities_read"
    /\ LET b == reg[src_pdo.reg]
       IN  /\ log' = Append(log, Rd(src_pdo.reg, b))
           /\ Finish(Returned(IntV(b)))
    /\ UNCHANGED <<reg, op, arg, detected, depth, pre, lastSel, rejected>>

\* `self._go_command = 0x01`
reset ==
    /\ pc = "reset"
    /\ BusWrite(go_command.reg, 1)
    /\ Finish(Returned(NoneV))
    /\ UNCHANGED <<op, arg, detected, depth, pre, lastSel, rejected>>

\* variant: the request also rewrites the selection register with the
\* default (5 V) selector
set_value_reselect ==
    /\ pc = "set_value"
    /\ reg' = [reg EXCEPT ![selected_pd.reg] = 16, ![go_command.reg] = 1]
    /\ log' = log \o <<Wr(selected_pd.reg, 16), Wr(go_command.reg, 1)>>
    /\ Finish(Returned(NoneV))
    /\ UNCHANGED <<op, arg, detected, depth, pre, lastSel, rejected>>

\* `self._go_command = 0b00001`
set_value ==
    /\ pc = "set_value"
    /\ BusWrite(go_command.reg, 1)
    /\ Finish(Returned(NoneV))
    /\ UNCHANGED <<op, arg, detected, depth, pre, lastSel, rejected>>

\* ------------------------------------------------------------------------
\* Voltage selector: the `value` property
\* ------------------------------------------------------------------------
\* getter: `return self.value` reads the property again, which runs the
\* getter again; the interpreter ends the nesting with RecursionError
value_getter ==
    /\ pc = "value_getter"
    /\ IF depth < RecursionLimit
       THEN depth' = depth + 1 /\ pc' = pc /\ ret' = ret
       ELSE depth' = depth /\ Finish(Raised("RecursionError"))
    /\ UNCHANGED <<reg, op, arg, log, detected, pre, lastSel, rejected>>

\* variant: no validation, an unknown voltage selects code 0
\* (VOLTAGE_TO_PDO.get(voltage, 0))
value_setter_unchecked ==
    /\ pc = "value_setter"
    /\ LET pdo_value == IF arg \in DOMAIN VOLTAGE_TO_PDO
                        THEN VOLTAGE_TO_PDO[arg] ELSE 0
           b == reg[selected_pd.reg]
           w == SetBits(b, selected_pd.num_bits, selected_pd.lowest_bit,
                        pdo_value)
       IN  /\ reg' = [reg EXCEPT ![selected_pd.reg] = w]
           /\ log' = log \o <<Rd(selected_pd.reg, b), Wr(selected_pd.reg, w)>>
           /\ lastSel' = pdo_value
           /\ rejected' = FALSE
           /\ Finish(Returned(NoneV))
    /\ UNCHANGED <<op, arg, detected, depth, pre>>

\* setter: validation, then `self.selected_pd = pdo_value`, which is
\* RWBits.__set__: a bus read of the register, the field replaced in the byte
\* read, a bus write of the result
value_setter ==
    /\ pc = "value_setter"
    /\ IF arg \notin DOMAIN VOLTAGE_TO_PDO
       THEN /\ Finish(Raised("ValueError"))
            /\ rejected' = TRUE
            /\ UNCHANGED <<reg, log, lastSel>>
       ELSE LET pdo_value == VOLTAGE_TO_PDO[arg]
                b == reg[selected_pd.reg]
                w == SetBits(b, selected_pd.num_bits, selected_pd.lowest_bit,
                             pdo_value)
            IN  /\ reg' = [reg EXCEPT ![selected_pd.reg] = w]
                /\ log' = log \o <<Rd(selected_pd.reg, b), Wr(selected_pd.reg, w)>>
                /\ lastSel' = pdo_value
                /\ rejected' = FALSE
                /\ Finish(Returned(NoneV))
    /\ UNCHANGED <<op, arg, detected, depth, pre>>

\* ------------------------------------------------------------------------
\* Selector and sequencer: every prior content of SRC_PDO, every voltage
\* argument 0 .. MaxVoltageArg.  The chip leaves SRC_PDO and GO_COMMAND,
\* which the host writes, as written.
\* ------------------------------------------------------------------------
VoltageArgs == 0 .. MaxVoltageArg

InitControl ==
    /\ InitCall
    /\ \E b \in Byte : reg = [RegsAtRest EXCEPT ![SRC_PDO] = b]
    /\ pre = HostWritten(reg)

NextControl ==
    \/ \E v \in VoltageArgs : Invoke("value_setter", v)
    \/ \E o \in {"value_getter", "set_value", "reset", "get_source_capabilities"} :
         Invoke(o, 0)
    \/ value_setter
    \/ value_getter
    \/ set_value
    \/ reset
    \/ get_source_capabilities
    \/ get_source_capabilities_sleep
    \/ get_source_capabilities_read

SpecControl == InitControl /\ [][NextControl]_vars

\* ========================================================================
\* Properties
\* ========================================================================
Done(o) == pc = "ready" /\ op = o

Reads(l) == SelectSeq(l, LAMBDA e : e.k = "read")
Writes(l) == SelectSeq(l, LAMBDA e : e.k = "write")

\* the documented selector codes and supported voltages, as the
\* specification lists them
Supported == {5, 9, 12, 15, 18, 20}
SelectorCode(v) ==
    CASE v = 5 -> 1 [] v = 9 -> 2 [] v = 12 -> 3
      [] v = 15 -> 8 [] v = 18 -> 9 [] v = 20 -> 10 [] OTHER -> -1

\* the registers the driver never writes are as the chip left them
OthersUntouched == \A a \in PD_STATUS0 .. SRC_PDO_20V : reg[a] = RegsAtRest[a]

\* ------------------------------------------------------------------------
\* C1: assigning an unsupported voltage to `value` raises ValueError with no
\* bus access at all (no read, no write, of SRC_PDO or any other register),
\* and SRC_PDO only ever differs from its content at the call's entry when
\* the call is a select of a supported voltage, whose write carries that
\* voltage's selector code.
\* ------------------------------------------------------------------------
C1_InvalidVoltageRejected ==
    /\ (Done("value_setter") /\ arg \notin Supported) =>
          /\ ret = Raised("ValueError")
          /\ log = << >>
          /\ reg[SRC_PDO] = pre[SRC_PDO]
          /\ reg[GO_COMMAND] = pre[GO_COMMAND]
          /\ OthersUntouched
    /\ (reg[SRC_PDO] # pre[SRC_PDO]) => (op = "value_setter" /\ arg \in Supported)
    /\ \A i \in DOMAIN log :
          (log[i].k = "write" /\ log[i].a = SRC_PDO) =>
             /\ arg \in Supported
             /\ log[i].v \div 16 = SelectorCode(arg)

\* a select of 6 V was rejected after an earlier select had succeeded
C1_Witness ==
    /\ Done("value_setter")
    /\ arg = 6
    /\ ret = Raised("ValueError")
    /\ lastSel = 2
    /\ rejected

\* ------------------------------------------------------------------------
\* C2: assigning a supported voltage v to `value` leaves bits 4-7 of SRC_PDO
\* equal to v's selector code and bits 0-3 as they were before the call, by
\* one read and one write of SRC_PDO; no other register is written.
\* ------------------------------------------------------------------------
C2_SelectReadModifyWrite ==
    (Done("value_setter") /\ arg \in Supported) =>
       /\ ret = Returned(NoneV)
       /\ reg[SRC_PDO] \div 16 = SelectorCode(arg)
       /\ reg[SRC_PDO] % 16 = pre[SRC_PDO] % 16
       /\ log = <<Rd(SRC_PDO, pre[SRC_PDO]), Wr(SRC_PDO, reg[SRC_PDO])>>
       /\ reg[GO_COMMAND] = pre[GO_COMMAND]
       /\ OthersUntouched

\* select(9) on a register holding 0xF5 leaves 0x25
C2_Witness ==
    /\ Done("value_setter")
    /\ arg = 9
    /\ pre[SRC_PDO] = 245
    /\ reg[SRC_PDO] = 37

ResponseOutcome(code) ==
    CASE code = 0 -> "NO RESPONSE"
      [] code = 1 -> "SUCCESS"
      [] code = 3 -> "INVALID COMMAND OR ARGUMENT"
      [] code = 4 -> "COMMAND NOT SUPPORTED"
      [] code = 5 -> "TRANSACTION FAILED, NO GOOD CRC"
      [] OTHER -> "UNKNOWN"

C4_ResponseDecodeTotal ==
    Done("get_response") =>
       /\ ret.kind = "return"
       /\ ret.val = StrV(ResponseOutcome((log[1].v \div 8) % 8))

\* ------------------------------------------------------------------------
\* C5: read_voltage returns UNATTACHED/5/9/12/15/18/20 for codes 0b0000 ..
\* 0b0110 and the failure marker for codes 0b0111 .. 0b1111 of a register
\* content it read, also when the chip changes PD_STATUS0 during the call; it
\* never ends in a lookup error.
\* ------------------------------------------------------------------------
VoltageOutcome(code) ==
    CASE code = 0 -> StrV("UNATTACHED")
      [] code = 1 -> IntV(5)
      [] code = 2 -> IntV(9)
      [] code = 3 -> IntV(12)
      [] code = 4 -> IntV(15)
      [] code = 5 -> IntV(18)
      [] code = 6 -> IntV(20)
      [] OTHER -> StrV("Unable to read voltage")

C5_VoltageDecodeTotal ==
    Done("read_voltage") =>
       /\ ret.kind = "return"
       /\ \E i \in DOMAIN log :
             /\ log[i].k = "read"
             /\ ret.val = VoltageOutcome(log[i].v \div 16)

\* ------------------------------------------------------------------------
\* C6: each status accessor performs exactly one bus read, of its status
\* register, per call and no bus write, and what it returns is derived from
\* that one read.
\* ------------------------------------------------------------------------
StatusRegister(o) ==
    IF o \in {"read_current", "read_voltage"} THEN PD_STATUS0 ELSE PD_STATUS1

C6_SingleReadPerAccessor ==
    (op \in StatusOps) =>
       /\ Len(Reads(log)) <= 1
       /\ Len(Writes(log)) = 0
       /\ \A i \in DOMAIN log :
             log[i].k = "read" => log[i].a = StatusRegister(op)
       /\ pc = "ready" => Len(Reads(log)) = 1

\* ------------------------------------------------------------------------
\* C7: available_voltages performs exactly six bus reads, of registers 0x02
\* .. 0x07 in that order, and no bus write, and returns exactly the voltages
\* of 5, 9, 12, 15, 18, 20 whose detection bit (bit 7 of the byte read from
\* the voltage's register) is set, ascending and without duplicates; detection
\* bits 1,0,1,0,0,1 give [5, 12, 20].
\* ------------------------------------------------------------------------
VoltageOf(a) ==
    CASE a = 2 -> 5 [] a = 3 -> 9 [] a = 4 -> 12
      [] a = 5 -> 15 [] a = 6 -> 18 [] a = 7 -> 20 [] OTHER -> 0

Ascending(q) == \A i, j \in DOMAIN q : i < j => q[i] < q[j]

Elements(q) == {q[i] : i \in DOMAIN q}

C7_AvailableVoltages ==
    /\ (op = "available_voltages") =>
          /\ Len(log) <= 6
          /\ \A i \in DOMAIN log : log[i] = Rd(i + 1, log[i].v)
    /\ Done("available_voltages") =>
          /\ Len(log) = 6
          /\ ret.kind = "return"
          /\ ret.val.t = "list"
          /\ Ascending(ret.val.l)
          /\ Elements(ret.val.l) =
                {VoltageOf(log[i].a) : i \in {j \in DOMAIN log : log[j].v >= 128}}
          /\ (\A i \in DOMAIN log : log[i].v = reg[log[i].a]) =>
                Elements(ret.val.l) =
                   {VoltageOf(a) : a \in {x \in 2 .. 7 : reg[x] >= 128}}
          /\ (\A a \in 2 .. 7 : (reg[a] >= 128) = (a \in {2, 4, 7})) /\
             (\A i \in DOMAIN log : log[i].v = reg[log[i].a]) =>
                ret.val.l = <<5, 12, 20>>

\* detection bits 1,0,1,0,0,1 were read and [5, 12, 20] was returned
C7_Witness ==
    /\ Done("available_voltages")
    /\ \A i \in DOMAIN log : (log[i].v >= 128) = (i \in {1, 3, 6})
    /\ \A i \in DOMAIN log : log[i].v = reg[log[i].a]
    /\ ret = Returned(ListV(<<5, 12, 20>>))

\* ------------------------------------------------------------------------
\* C8 as stated: PD_STATUS1 is decoded bit 7 = CC direction, bit 6 =
\* attachment, bits 3-5 = response code, bit 2 = 5V contract voltage flag,
\* bits 0-1 = 5V contract current, and raw 0b11001010 gives attachment true,
\* CC2, SUCCESS, contract voltage flag 1, contract current 0b10.
\* ------------------------------------------------------------------------
FieldDecode ==
    (pc = "ready" /\ op \in Status1Ops) =>
       /\ log = <<Rd(PD_STATUS1, log[1].v)>>
       /\ LET b == log[1].v
          IN  /\ op = "get_cc_direction" => ret = Returned(BoolV(b >= 128))
              /\ op = "is_attached" => ret = Returned(BoolV((b \div 64) % 2 = 1))
              /\ op = "get_5v_contract_volts" =>
                    ret = Returned(BoolV((b \div 4) % 2 = 1))
              /\ op = "get_5v_contract_amps" => ret = Returned(IntV(b % 4))
              /\ (op = "get_response" /\ ret.kind = "return") =>
                    ret.val = StrV(ResponseOutcome((b \div 8) % 8))
              /\ (op = "get_response" /\ (b \div 8) % 8 \in {0, 1, 3, 4, 5}) =>
                    ret.kind = "return"

\* accessor results on raw PD_STATUS1 = 0b11001010 = 202, with the contract
\* voltage flag as given
Example202(flag) ==
    (pc = "ready" /\ op \in Status1Ops /\ log = <<Rd(PD_STATUS1, 202)>>) =>
       /\ op = "is_attached" => ret = Returned(BoolV(TRUE))
       /\ op = "get_cc_direction" => ret = Returned(BoolV(TRUE))
       /\ op = "get_response" => ret = Returned(StrV("SUCCESS"))
       /\ op = "get_5v_contract_volts" => ret = Returned(BoolV(flag))
       /\ op = "get_5v_contract_amps" => ret = Returned(IntV(2))

C8_AsStated == FieldDecode /\ Example202(TRUE)

\* ------------------------------------------------------------------------
\* C8 amended: the same field-by-field decode, and raw 0b11001010 gives
\* attachment true, CC2, SUCCESS, contract current 0b10 and contract voltage
\* flag 0 (bit 2 of 0b11001010 is clear).
\* ------------------------------------------------------------------------
C8_Status1Decode == FieldDecode /\ Example202(FALSE)

\* the contract voltage flag was read from raw 0b11001010 and came back false
C8_Witness ==
    /\ Done("get_5v_contract_volts")
    /\ log = <<Rd(PD_STATUS1, 202)>>
    /\ ret = Returned(BoolV(FALSE))

\* ------------------------------------------------------------------------
\* C9: a select never writes GO_COMMAND; set_value and reset each perform
\* exactly one write of 0x01 to GO_COMMAND, with no delay and no readback,
\* and never write SRC_PDO; when set_value has written its command, bits 4-7
\* of SRC_PDO hold the selector code of the most recent successful select,
\* which a rejected select in between has left unchanged.
\* ------------------------------------------------------------------------
C9_SelectThenCommit ==
    /\ (op = "value_setter") =>
          /\ \A i \in DOMAIN log : log[i].a # GO_COMMAND
          /\ reg[GO_COMMAND] = pre[GO_COMMAND]
    /\ (pc = "ready" /\ op \in {"set_value", "reset"}) =>
          /\ log = <<Wr(GO_COMMAND, 1)>>
          /\ reg[GO_COMMAND] = 1
          /\ reg[SRC_PDO] = pre[SRC_PDO]
          /\ ret = Returned(NoneV)
    /\ (Done("set_value") /\ lastSel # -1) => reg[SRC_PDO] \div 16 = lastSel
    /\ (Done("value_setter") /\ ret.kind = "raise") =>
          /\ reg[SRC_PDO] = pre[SRC_PDO]
          /\ lastSel # -1 => reg[SRC_PDO] \div 16 = lastSel

\* set_value committed 9 V, selected before a select that was rejected
C9_Witness ==
    /\ Done("set_value")
    /\ lastSel = 2
    /\ rejected
    /\ reg[SRC_PDO] \div 16 = 2
    /\ log = <<Wr(GO_COMMAND, 1)>>

\* ------------------------------------------------------------------------
\* C10: every public operation ends after a fixed number of steps without
\* looping on the bus, and reading the `value` property ends by returning a
\* result to the caller.
\* ------------------------------------------------------------------------
C10_OperationsReturn ==
    /\ Len(log) <= 3
    /\ Done("value_getter") => ret.kind = "return"

====
